---- MODULE Spec2Model ----
(***************************************************************************)
(* The pipeline orchestrator of src/src/orchestrator/langgraph_workflow.py *)
(* as a state machine: one WorkflowState threaded through the timed stage  *)
(* agents, the external collaborators as a nondeterministic environment.   *)
(***************************************************************************)
EXTENDS Naturals, Integers, Sequences, FiniteSets, TLC

\* ------------------------------------------------------------------ bounds
\* Longest sequence of records a collaborator returns.
MaxLen == 2
\* Longest array of a query result bundle.
MaxArr == 2

\* ------------------------------------------------------------- vocabulary
\* Stage names, in the order run_full_pipeline calls the agents.
StageOrder == <<"ingestion", "preprocessing", "deduplication", "ner",
                "embedding", "impact_scoring", "query">>

StageNames == {StageOrder[i] : i \in 1..Len(StageOrder)}

\* The markers current_stage takes, in the order the run sets them.
MarkerOrder == <<"initialized", "ingestion_complete", "preprocessing_complete",
                 "deduplication_complete", "ner_complete", "embedding_complete",
                 "impact_complete", "query_complete", "finalized">>

Rank(marker) == CHOOSE i \in 1..Len(MarkerOrder) : MarkerOrder[i] = marker

\* A query string: the None default, or characters (" " is whitespace).
NoneQuery == <<"None">>

Queries == {NoneQuery, <<>>, <<" ">>, <<" ", "q">>}

\* ----------------------------------------------------------- Python values
\* A Record is identified by the stage that produced it and its position.
Fresh(tag, n) == [i \in 1..n |-> <<tag, i>>]

\* Elements of the arrays of a query result bundle: None, a scalar, a list.
NoneE == [t |-> "none", v |-> <<>>]

ScalarE(n) == [t |-> "scalar", v |-> <<n>>]

ListE(elems) == [t |-> "list", v |-> elems]

BundleKeys == {"documents", "docs", "documents_list", "ids", "doc_ids",
               "distances", "scores", "metadatas", "metadata"}

\* A mapping with none of the bundle keys.
NoBundle == [k \in BundleKeys |-> NoneE]

\* What a collaborator hands back: kind is how the agents' isinstance /
\* hasattr / list() probes see it, items what to_dict("records") or list()
\* yields, truthy what bool() does ("raise": bool() faults, as on a DataFrame).
PyNone == [kind |-> "none", items |-> <<>>, truthy |-> "false", bundle |-> NoBundle]

PyTable(items) == [kind |-> "table", items |-> items, truthy |-> "raise", bundle |-> NoBundle]

PyList(items) ==
    [kind |-> "list", items |-> items,
     truthy |-> IF items = <<>> THEN "false" ELSE "true", bundle |-> NoBundle]

PyIter(items, truthy) == [kind |-> "iter", items |-> items, truthy |-> truthy, bundle |-> NoBundle]

PyScalar(truthy) == [kind |-> "noniter", items |-> <<>>, truthy |-> truthy, bundle |-> NoBundle]

PyDict(bundle, truthy) == [kind |-> "dict", items |-> <<>>, truthy |-> truthy, bundle |-> bundle]

\* The values over the item sequences of Seqs.
ValuesOver(Seqs) ==
    {PyNone, PyScalar("true"), PyScalar("false")}
    \cup {PyTable(s) : s \in Seqs}
    \cup {PyList(s) : s \in Seqs}
    \cup {PyIter(s, "true") : s \in Seqs}
    \cup {PyIter(<<>>, "false")}

\* ---------------------------------------------------------- collaborators
\* A resolved collaborator as inspect.signature and a call see it: the
\* number of declared parameters, how many of them are required, and what its
\* body does on the first and on the second invocation.
Sigs == {[params |-> 0, required |-> 0], [params |-> 1, required |-> 1],
         [params |-> 1, required |-> 0], [params |-> 2, required |-> 2]}

Raises(exc) == [raises |-> exc, value |-> PyNone]

Returns(v) == [raises |-> "no", value |-> v]

\* Python's binding of n positional arguments to the signature.
Binds(sig, n) == sig.required <= n /\ n <= sig.params

\* One invocation fn(*args): an arity mismatch is a TypeError raised before
\* the body runs; otherwise the body decides.
Invoke(sig, args, body) ==
    IF Binds(sig, Len(args))
    THEN [args |-> args, ran |-> TRUE, raises |-> body.raises, value |-> body.value]
    ELSE [args |-> args, ran |-> FALSE, raises |-> "TypeError", value |-> PyNone]

\* call_flexible with a retry outside any try block: what the no-argument
\* retry raises reaches the caller.
call_flexible_bare_retry(fn, args, env) ==
    IF fn = "None"
    THEN [result |-> PyNone, outcome |-> "unavailable", calls |-> <<>>]
    ELSE LET c1 == Invoke(env.sig, IF env.sig.params > 0 THEN args ELSE <<>>, env.first)
             c2 == Invoke(env.sig, <<>>, env.second)
         IN  IF c1.raises = "no"
             THEN [result |-> c1.value, outcome |-> "returned", calls |-> <<c1>>]
             ELSE IF c1.raises # "TypeError"
             THEN [result |-> PyNone, outcome |-> "failed", calls |-> <<c1>>]
             ELSE IF c2.raises = "no"
             THEN [result |-> c2.value, outcome |-> "returned", calls |-> <<c1, c2>>]
             ELSE [result |-> PyNone, outcome |-> "propagated", calls |-> <<c1, c2>>]

\* call_flexible(fn, *args): the adapter's result and the invocations it made.
\* fn is "None" for an import that failed; env is the collaborator behind a
\* resolved reference: [sig, first, second].
call_flexible(fn, args, env) ==
    IF fn = "None"
    THEN [result |-> PyNone, outcome |-> "unavailable", calls |-> <<>>]
    ELSE LET c1 == Invoke(env.sig, IF env.sig.params > 0 THEN args ELSE <<>>, env.first)
             c2 == Invoke(env.sig, <<>>, env.second)
         IN  IF c1.raises = "no"
             THEN [result |-> c1.value, outcome |-> "returned", calls |-> <<c1>>]
             ELSE IF c1.raises # "TypeError"
             THEN [result |-> PyNone, outcome |-> "failed", calls |-> <<c1>>]
             ELSE IF c2.raises = "no"
             THEN [result |-> c2.value, outcome |-> "returned", calls |-> <<c1, c2>>]
             ELSE [result |-> PyNone, outcome |-> "failed", calls |-> <<c1, c2>>]

\* The adapter was not reached: the agent returned before calling it.
NoCall == [result |-> PyNone, outcome |-> "skipped", calls |-> <<>>]

\* ------------------------------------------------------------------ state
\* The stats mapping: the keys it holds and the value under each (the
\* timestamp's value, a wall-clock reading, is left out).
EmptyStats ==
    [keys |-> {}, workflow_complete |-> FALSE, total_duration_seconds |-> 0,
     stages_completed |-> 0, errors_count |-> 0, stage_breakdown |-> <<>>,
     raw_articles_count |-> 0, unique_articles_count |-> 0,
     query_results_count |-> 0]

\* WorkflowState(query=...): every other field at its dataclass default.
WorkflowState(query) ==
    [raw_articles |-> <<>>, preprocessed_articles |-> <<>>,
     deduplicated_articles |-> <<>>, extracted_entities |-> <<>>,
     embeddings_indexed |-> FALSE, impact_scores |-> <<>>, query |-> query,
     query_results |-> <<>>, current_stage |-> "initialized",
     stage_durations |-> <<>>, errors |-> <<>>, stats |-> EmptyStats]

\* Python's `a or b` on two lists.
Or(a, b) == IF a # <<>> THEN a ELSE b

\* What an agent function did: the state as it left it, the exception it
\* raised ("no" when it returned), and what its call_flexible call did.
Returned(s, adapter) == [state |-> s, raised |-> "no", adapter |-> adapter]

Raised(s, exc, adapter) == [state |-> s, raised |-> exc, adapter |-> adapter]

\* The clock: every collaborator invocation takes one unit, the orchestrator's
\* own code none, so time.time() - t0 is the number of invocations made.
Elapsed(adapter) == Len(adapter.calls)

\* -------------------------------------------------------------- the agents
\* ingestion_agent's body (without the timed_stage wrapper).
ingestion_body(s, fn, env) ==
    LET a == call_flexible(fn, <<>>, env)
        r == a.result
        done(articles) ==
            Returned([s EXCEPT !.raw_articles = articles,
                               !.current_stage = "ingestion_complete",
                               !.stats.keys = @ \cup {"raw_articles_count"},
                               !.stats.raw_articles_count = Len(articles)], a)
    IN  IF r.kind = "none" THEN done(<<>>)
        ELSE IF r.kind \in {"list", "table"} THEN done(r.items)
        ELSE IF r.truthy = "false" THEN done(<<>>)
        ELSE IF r.kind = "noniter" THEN Raised(s, "TypeError", a)
        ELSE done(r.items)

\* A normalisation that keeps the records of a list only.
NormalizedListOnly(r) ==
    IF r.kind = "noniter"
    THEN [ok |-> FALSE, items |-> <<>>]
    ELSE [ok |-> TRUE, items |-> IF r.kind = "list" THEN r.items ELSE <<>>]

\* The DataFrame / list / iterable normalisation shared by the preprocessing,
\* deduplication and impact-scoring agents: the list, or not ok when list()
\* raises.
Normalized(r) ==
    IF r.kind = "noniter"
    THEN [ok |-> FALSE, items |-> <<>>]
    ELSE [ok |-> TRUE, items |-> r.items]

\* preprocessing_agent where a None result empties the output instead of
\* falling back to the raw articles.
preprocessing_body_empty(s, fn, env) ==
    LET articles == s.raw_articles
        a == call_flexible(fn, <<articles>>, env)
        n == Normalized(a.result)
    IN  IF articles = <<>>
        THEN Returned([s EXCEPT !.preprocessed_articles = <<>>], NoCall)
        ELSE IF a.result.kind = "none"
        THEN Returned([s EXCEPT !.preprocessed_articles = <<>>], a)
        ELSE IF ~n.ok
        THEN Raised(s, "TypeError", a)
        ELSE Returned([s EXCEPT !.preprocessed_articles = n.items,
                                !.current_stage = "preprocessing_complete"], a)

preprocessing_body(s, fn, env) ==
    LET articles == s.raw_articles
        a == call_flexible(fn, <<articles>>, env)
        n == Normalized(a.result)
    IN  IF articles = <<>>
        THEN Returned([s EXCEPT !.preprocessed_articles = <<>>], NoCall)
        ELSE IF a.result.kind = "none"
        THEN Returned([s EXCEPT !.preprocessed_articles = articles], a)
        ELSE IF ~n.ok
        THEN Raised(s, "TypeError", a)
        ELSE Returned([s EXCEPT !.preprocessed_articles = n.items,
                                !.current_stage = "preprocessing_complete"], a)

\* deduplication_agent storing an empty list when the adapter gives None.
deduplication_body_dropping(s, fn, env) ==
    LET input_list == Or(s.preprocessed_articles, s.raw_articles)
        a == call_flexible(fn, <<input_list>>, env)
        n == Normalized(a.result)
    IN  IF input_list = <<>>
        THEN Returned([s EXCEPT !.deduplicated_articles = <<>>], NoCall)
        ELSE IF a.result.kind = "none"
        THEN Returned([s EXCEPT !.deduplicated_articles = <<>>], a)
        ELSE IF ~n.ok
        THEN Raised(s, "TypeError", a)
        ELSE Returned([s EXCEPT !.deduplicated_articles = n.items,
                                !.current_stage = "deduplication_complete"], a)

\* deduplication_agent storing its input before it converts the result.
deduplication_body_early(s, fn, env) ==
    LET input_list == Or(s.preprocessed_articles, s.raw_articles)
        a == call_flexible(fn, <<input_list>>, env)
        n == Normalized(a.result)
    IN  IF input_list = <<>>
        THEN Returned([s EXCEPT !.deduplicated_articles = <<>>], NoCall)
        ELSE IF a.result.kind = "none"
        THEN Returned([s EXCEPT !.deduplicated_articles = input_list], a)
        ELSE IF ~n.ok
        THEN Raised([s EXCEPT !.deduplicated_articles = input_list], "TypeError", a)
        ELSE Returned([s EXCEPT !.deduplicated_articles = n.items,
                                !.current_stage = "deduplication_complete"], a)

deduplication_body(s, fn, env) ==
    LET input_list == Or(s.preprocessed_articles, s.raw_articles)
        a == call_flexible(fn, <<input_list>>, env)
        n == Normalized(a.result)
    IN  IF input_list = <<>>
        THEN Returned([s EXCEPT !.deduplicated_articles = <<>>], NoCall)
        ELSE IF a.result.kind = "none"
        THEN Returned([s EXCEPT !.deduplicated_articles = input_list], a)
        ELSE IF ~n.ok
        THEN Raised(s, "TypeError", a)
        ELSE Returned([s EXCEPT !.deduplicated_articles = n.items,
                                !.current_stage = "deduplication_complete"], a)

\* The raw articles whatever the later stages produced.
RawArticles(s) == s.raw_articles

\* The input of the entity-extraction, embedding and impact-scoring agents.
LatestArticles(s) ==
    Or(s.deduplicated_articles, Or(s.preprocessed_articles, s.raw_articles))

\* ner_agent without the empty-input return.
ner_body_eager(s, fn, env) ==
    LET articles == LatestArticles(s)
        a == call_flexible(fn, <<articles>>, env)
    IN  IF a.result.kind = "list"
        THEN Returned([s EXCEPT !.extracted_entities = a.result.items,
                                !.current_stage = "ner_complete"], a)
        ELSE Returned([s EXCEPT !.current_stage = "ner_complete"], a)

ner_body(s, fn, env) ==
    LET articles == LatestArticles(s)
        a == call_flexible(fn, <<articles>>, env)
    IN  IF articles = <<>>
        THEN Returned(s, NoCall)
        ELSE IF a.result.kind = "list"
        THEN Returned([s EXCEPT !.extracted_entities = a.result.items,
                                !.current_stage = "ner_complete"], a)
        ELSE Returned([s EXCEPT !.current_stage = "ner_complete"], a)

embedding_body(s, fn, env) ==
    LET articles == LatestArticles(s)
        a == call_flexible(fn, <<articles>>, env)
        r == a.result
    IN  IF articles = <<>>
        THEN Returned([s EXCEPT !.embeddings_indexed = FALSE], NoCall)
        ELSE IF r.kind = "none"
        THEN Returned([s EXCEPT !.embeddings_indexed = TRUE,
                                !.current_stage = "embedding_complete"], a)
        ELSE IF r.truthy = "raise"
        THEN Raised(s, "ValueError", a)
        ELSE Returned([s EXCEPT !.embeddings_indexed = (r.truthy = "true"),
                                !.current_stage = "embedding_complete"], a)

\* impact_scoring_agent setting the entity-extraction marker instead of its own.
impact_scoring_body_stale(s, fn, env) ==
    LET articles == LatestArticles(s)
        a == call_flexible(fn, <<articles>>, env)
        n == Normalized(a.result)
    IN  IF articles = <<>>
        THEN Returned([s EXCEPT !.impact_scores = <<>>], NoCall)
        ELSE IF a.result.kind = "none"
        THEN Returned([s EXCEPT !.impact_scores = <<>>], a)
        ELSE IF ~n.ok
        THEN Raised(s, "TypeError", a)
        ELSE Returned([s EXCEPT !.impact_scores = n.items,
                                !.current_stage = "ner_complete"], a)

impact_scoring_body(s, fn, env) ==
    LET articles == LatestArticles(s)
        a == call_flexible(fn, <<articles>>, env)
        n == Normalized(a.result)
    IN  IF articles = <<>>
        THEN Returned([s EXCEPT !.impact_scores = <<>>], NoCall)
        ELSE IF a.result.kind = "none"
        THEN Returned([s EXCEPT !.impact_scores = <<>>], a)
        ELSE IF ~n.ok
        THEN Raised(s, "TypeError", a)
        ELSE Returned([s EXCEPT !.impact_scores = n.items,
                                !.current_stage = "impact_complete"], a)

\* --------------------------------------------------------- the query agent
IsSpace(c) == c = " "

\* str.strip(): the string without its leading and trailing whitespace.
RECURSIVE LStrip(_)
LStrip(q) == IF q # <<>> /\ IsSpace(Head(q)) THEN LStrip(Tail(q)) ELSE q

RECURSIVE RStrip(_)
RStrip(q) ==
    IF q # <<>> /\ IsSpace(q[Len(q)]) THEN RStrip(SubSeq(q, 1, Len(q) - 1)) ELSE q

Strip(q) == RStrip(LStrip(q))

\* bool() of a bundle element.
Truthy(e) == (e.t = "list" /\ e.v # <<>>) \/ (e.t = "scalar" /\ e.v # <<0>>)

\* Only the first key is consulted.
FirstKeyOnly(bundle, keys) ==
    IF keys # <<>> /\ Truthy(bundle[Head(keys)]) THEN bundle[Head(keys)]
    ELSE ListE(<<>>)

\* raw.get(k1) or raw.get(k2) or ... or []
RECURSIVE FirstTruthy(_, _)
FirstTruthy(bundle, keys) ==
    IF keys = <<>> THEN ListE(<<>>)
    ELSE IF Truthy(bundle[Head(keys)]) THEN bundle[Head(keys)]
    ELSE FirstTruthy(bundle, Tail(keys))

\* An unwrapping that removes a second level of nesting too.
UnwrapTwice(arr) ==
    LET once == IF arr.v # <<>> /\ arr.v[1].t = "list" THEN arr.v[1] ELSE arr
    IN  IF once.v # <<>> /\ once.v[1].t = "list" THEN once.v[1] ELSE once

\* "unwrap nested lists": x[0] when x is non-empty and x[0] is a list.
Unwrap(arr) == IF arr.v # <<>> /\ arr.v[1].t = "list" THEN arr.v[1] ELSE arr

At(arr, i) == IF i <= Len(arr.v) THEN arr.v[i] ELSE NoneE

\* min() in place of max(): the records stop at the shortest array.
Shortest(a, b) == IF a <= b THEN a ELSE b

Max(a, b) == IF a >= b THEN a ELSE b

\* The parsing of a truthy result bundle: the result records, or not ok when
\* an array is a value that cannot be indexed.
ParseArrays(bundle) ==
    LET docs0 == FirstTruthy(bundle, <<"documents", "docs", "documents_list">>)
        ids0 == FirstTruthy(bundle, <<"ids", "doc_ids">>)
        distances0 == FirstTruthy(bundle, <<"distances", "scores">>)
        metadatas0 == FirstTruthy(bundle, <<"metadatas", "metadata">>)
        docs == Unwrap(docs0)
        ids == Unwrap(ids0)
        distances == Unwrap(distances0)
        metadatas == Unwrap(metadatas0)
        n == Max(Max(Len(docs.v), Len(ids.v)), Max(Len(distances.v), Len(metadatas.v)))
    IN  IF \E a \in {docs0, ids0, distances0, metadatas0} : a.t # "list"
        THEN [ok |-> FALSE, results |-> <<>>]
        ELSE [ok |-> TRUE,
              results |-> [i \in 1..n |->
                             [id |-> At(ids, i), document |-> At(docs, i),
                              distance |-> At(distances, i),
                              metadata |-> At(metadatas, i)]]]

\* ParseArrays of the bundle, the bundle evaluated once.
ParseBundle(bundle) == CHOOSE p \in {ParseArrays(b) : b \in {bundle}} : TRUE

query_body(s, fn, env) ==
    LET query == Strip(s.query)
        a == call_flexible(fn, <<query>>, env)
        raw == a.result
        p == ParseBundle(raw.bundle)
        done(results) ==
            Returned([s EXCEPT !.query_results = results,
                               !.current_stage = "query_complete"], a)
    IN  IF query = <<>>
        THEN Returned(s, NoCall)
        ELSE IF fn = "None"
        THEN Returned([s EXCEPT !.query_results = <<>>],
                      [NoCall EXCEPT !.outcome = "unavailable"])
        ELSE IF raw.truthy = "raise"
        THEN Raised(s, "ValueError", a)
        ELSE IF raw.truthy = "false"
        THEN done(<<>>)
        ELSE IF raw.kind # "dict"
        THEN Raised(s, "AttributeError", a)
        ELSE IF ~p.ok
        THEN Raised(s, "TypeError", a)
        ELSE done(p.results)

\* ------------------------------------------------- wrapper and finalizer
\* timed_stage with an except branch that re-raises after recording.
timed_stage_reraise(stage_name, res) ==
    IF res.raised = "no"
    THEN [state |-> [res.state EXCEPT
                       !.stage_durations =
                           Append(@, [stage |-> stage_name,
                                      duration |-> Elapsed(res.adapter)])],
          escapes |-> "no"]
    ELSE [state |-> [res.state EXCEPT
                       !.errors = Append(@, <<stage_name, res.raised>>),
                       !.stage_durations =
                           Append(@, [stage |-> stage_name,
                                      duration |-> Elapsed(res.adapter),
                                      error |-> TRUE])],
          escapes |-> res.raised]

\* timed_stage with an except branch that records the error but no
\* duration entry.
timed_stage_untimed(stage_name, res) ==
    IF res.raised = "no"
    THEN [state |-> [res.state EXCEPT
                       !.stage_durations =
                           Append(@, [stage |-> stage_name,
                                      duration |-> Elapsed(res.adapter)])],
          escapes |-> "no"]
    ELSE [state |-> [res.state EXCEPT
                       !.errors = Append(@, <<stage_name, res.raised>>)],
          escapes |-> "no"]

\* timed_stage with an except branch that appends the message and the trace
\* as two errors entries.
timed_stage_twice(stage_name, res) ==
    IF res.raised = "no"
    THEN [state |-> [res.state EXCEPT
                       !.stage_durations =
                           Append(@, [stage |-> stage_name,
                                      duration |-> Elapsed(res.adapter)])],
          escapes |-> "no"]
    ELSE [state |-> [res.state EXCEPT
                       !.errors = @ \o <<<<stage_name, res.raised>>,
                                         <<stage_name, "traceback">>>>,
                       !.stage_durations =
                           Append(@, [stage |-> stage_name,
                                      duration |-> Elapsed(res.adapter),
                                      error |-> TRUE])],
          escapes |-> "no"]

\* timed_stage with an error string made of the message alone.
timed_stage_unnamed(stage_name, res) ==
    IF res.raised = "no"
    THEN [state |-> [res.state EXCEPT
                       !.stage_durations =
                           Append(@, [stage |-> stage_name,
                                      duration |-> Elapsed(res.adapter)])],
          escapes |-> "no"]
    ELSE [state |-> [res.state EXCEPT
                       !.errors = Append(@, <<"", res.raised>>),
                       !.stage_durations =
                           Append(@, [stage |-> stage_name,
                                      duration |-> Elapsed(res.adapter),
                                      error |-> TRUE])],
          escapes |-> "no"]

\* timed_stage writing an error key, set to False, on success too.
timed_stage_flagging(stage_name, res) ==
    IF res.raised = "no"
    THEN [state |-> [res.state EXCEPT
                       !.stage_durations =
                           Append(@, [stage |-> stage_name,
                                      duration |-> Elapsed(res.adapter),
                                      error |-> FALSE])],
          escapes |-> "no"]
    ELSE [state |-> [res.state EXCEPT
                       !.errors = Append(@, <<stage_name, res.raised>>),
                       !.stage_durations =
                           Append(@, [stage |-> stage_name,
                                      duration |-> Elapsed(res.adapter),
                                      error |-> TRUE])],
          escapes |-> "no"]

\* timed_stage(stage_name)(fn)(state), given what fn did: the state the
\* wrapper returns and the exception that leaves it ("no": none; every
\* exception drawn here is an Exception, which the wrapper catches).
timed_stage(stage_name, res) ==
    IF res.raised = "no"
    THEN [state |-> [res.state EXCEPT
                       !.stage_durations =
                           Append(@, [stage |-> stage_name,
                                      duration |-> Elapsed(res.adapter)])],
          escapes |-> "no"]
    ELSE [state |-> [res.state EXCEPT
                       !.errors = Append(@, <<stage_name, res.raised>>),
                       !.stage_durations =
                           Append(@, [stage |-> stage_name,
                                      duration |-> Elapsed(res.adapter),
                                      error |-> TRUE])],
          escapes |-> "no"]

RECURSIVE SumDurations(_)
SumDurations(durations) ==
    IF durations = <<>> THEN 0
    ELSE Head(durations).duration + SumDurations(Tail(durations))

\* finalize_agent with the unique count taken from raw_articles and
\* the total duration is the number of entries.
finalize_agent_miscount(s) ==
    [s EXCEPT
       !.stats = [keys |-> {"workflow_complete", "total_duration_seconds",
                            "stages_completed", "errors_count", "timestamp",
                            "stage_breakdown", "raw_articles_count",
                            "unique_articles_count", "query_results_count"},
                  workflow_complete |-> TRUE,
                  total_duration_seconds |-> Len(s.stage_durations),
                  stages_completed |-> Len(s.stage_durations),
                  errors_count |-> Len(s.errors),
                  stage_breakdown |-> s.stage_durations,
                  raw_articles_count |-> Len(s.raw_articles),
                  unique_articles_count |-> Len(s.raw_articles),
                  query_results_count |-> Len(s.query_results)],
       !.current_stage = "finalized"]

finalize_agent(s) ==
    [s EXCEPT
       !.stats = [keys |-> {"workflow_complete", "total_duration_seconds",
                            "stages_completed", "errors_count", "timestamp",
                            "stage_breakdown", "raw_articles_count",
                            "unique_articles_count", "query_results_count"},
                  workflow_complete |-> TRUE,
                  total_duration_seconds |-> SumDurations(s.stage_durations),
                  stages_completed |-> Len(s.stage_durations),
                  errors_count |-> Len(s.errors),
                  stage_breakdown |-> s.stage_durations,
                  raw_articles_count |-> Len(s.raw_articles),
                  unique_articles_count |-> Len(s.deduplicated_articles),
                  query_results_count |-> Len(s.query_results)],
       !.current_stage = "finalized"]

\* ---------------------------------------------------------- environment
\* The item sequences a collaborator of a stage returns: no record, MaxLen
\* fresh records, or the sequence it was handed.
ReturnSeqs(stage, args) ==
    {Fresh(stage, 0), Fresh(stage, MaxLen)} \cup {args[i] : i \in 1..Len(args)}

\* Arrays of a result bundle: flat, or nested one level as the vector store
\* returns them. The scalars of array k are 10k+1, 10k+2, ...
Flat(k, n) == ListE([i \in 1..n |-> ScalarE(10 * k + i)])

Nested(k, n) == ListE(<<Flat(k, n)>>)

\* The result bundles of the pipeline runs: documents, ids and metadatas of
\* one length, distances of another; and one whose ids is not an array.
RunBundles ==
    {[NoBundle EXCEPT !["documents"] = Nested(1, n), !["ids"] = Nested(2, n),
                      !["distances"] = Nested(3, m), !["metadatas"] = Nested(4, n)]
        : n \in 0..MaxArr, m \in 0..MaxArr}
    \cup {[NoBundle EXCEPT !["docs"] = Flat(1, 1), !["ids"] = ScalarE(1)]}

\* What the collaborator of a stage may return.
ReturnValues(stage, args) ==
    IF stage = "query"
    THEN {PyNone, PyScalar("true"), PyList(Fresh(stage, 1)), PyTable(<<>>),
          PyDict(NoBundle, "false"), PyDict(NoBundle, "true")}
         \cup {PyDict(b, "true") : b \in RunBundles}
    ELSE ValuesOver(ReturnSeqs(stage, args))

Bodies(stage, args) ==
    {Raises("TypeError"), Raises("Exception")}
    \cup {Returns(v) : v \in ReturnValues(stage, args)}

\* What the no-argument retry of a collaborator may do.
RetryBodies(stage) ==
    {Raises("TypeError"), Returns(PyNone),
     Returns(IF stage = "query" THEN PyDict(NoBundle, "true") ELSE PyList(Fresh(stage, 1)))}

\* The arguments call_flexible passes on its first invocation.
FirstArgs(sig, args) == IF sig.params > 0 THEN args ELSE <<>>

\* The collaborators behind a resolved reference. A body is only drawn for
\* an invocation that is made and binds its arguments.
Collaborators(stage, args) ==
    UNION {UNION {{[sig |-> sig, first |-> b1, second |-> b2]
                     : b2 \in IF Invoke(sig, FirstArgs(sig, args), b1).raises = "TypeError"
                                 /\ Binds(sig, 0)
                              THEN RetryBodies(stage) ELSE {Raises("Exception")}}
                  : b1 \in IF Binds(sig, Len(FirstArgs(sig, args)))
                           THEN Bodies(stage, args) ELSE {Raises("Exception")}}
           : sig \in Sigs}

\* The regular collaborator of a stage: it takes what call_flexible passes and
\* returns what the stage expects (one record; success; a one-row bundle).
RegularValue(stage) ==
    IF stage = "embedding" THEN PyScalar("true")
    ELSE IF stage = "query"
    THEN PyDict([NoBundle EXCEPT !["documents"] = Nested(1, 1), !["ids"] = Nested(2, 1),
                                 !["distances"] = Nested(3, 1),
                                 !["metadatas"] = Nested(4, 1)], "true")
    ELSE PyList(Fresh(stage, 1))

Regular(stage) ==
    [sig |-> IF stage = "ingestion" THEN [params |-> 0, required |-> 0]
             ELSE [params |-> 1, required |-> 1],
     first |-> Returns(RegularValue(stage)), second |-> Raises("Exception")]

\* ------------------------------------------------------------ the machine
\* Bound: the stages of one run whose collaborator is not the regular one
\* (its reference is None, or it is drawn from Collaborators).
MaxIrregular == 2
\* Bound: the collaborator references that failed to resolve.
MaxAbsent == 1

VARIABLES
    st,     \* the run's WorkflowState
    pc,     \* the call run_full_pipeline makes next
    fns,    \* the module's collaborator references: "fn", or "None"
    odd,    \* history: the irregular collaborators met so far
    last,   \* history: what the latest stage attempt did
    how     \* history: per stage, how its adapter call ended

vars == <<st, pc, fns, odd, last, how>>

\* How an adapter call ended, as the history keeps it per stage: outcome is
\* "skipped" (the agent returned before the call), "unavailable", "returned",
\* "raised" (the adapter failed and a collaborator body raised) or "mismatch"
\* (it failed on arity alone); answer is "nothing" for a collaborator that
\* returned None and, in the stages that take bool() of the result, what
\* bool() gives.
How(stage, adapter) ==
    [outcome |-> IF adapter.outcome # "failed" THEN adapter.outcome
                 ELSE IF \E i \in 1..Len(adapter.calls) : adapter.calls[i].ran
                 THEN "raised" ELSE "mismatch",
     answer |-> IF adapter.outcome # "returned" THEN "n/a"
                ELSE IF adapter.result.kind = "none" THEN "nothing"
                ELSE IF stage \in {"embedding", "query"} THEN adapter.result.truthy
                ELSE "n/a"]

Pending == [outcome |-> "pending", answer |-> "n/a"]

\* What the history keeps of the latest adapter call: how it ended, its
\* result, and the arguments of each invocation it made.
Digest(adapter) ==
    [outcome |-> adapter.outcome, result |-> adapter.result,
     handed |-> [i \in 1..Len(adapter.calls) |-> adapter.calls[i].args]]

NoAttempt ==
    [stage |-> "none", raised |-> "no", adapter |-> Digest(NoCall), input |-> <<>>,
     before |-> "initialized"]

Absent(f) == {n \in StageNames : f[n] = "None"}

\* safe_import of the seven collaborators, then run_full_pipeline(query)
\* up to its first agent call.
Init ==
    /\ fns \in {f \in [StageNames -> {"fn", "None"}] : Cardinality(Absent(f)) <= MaxAbsent}
    /\ \E query \in Queries : st = WorkflowState(IF query = NoneQuery THEN <<>> ELSE query)
    /\ pc = "ingestion"
    /\ odd = Cardinality(Absent(fns))
    /\ last = NoAttempt
    /\ how = [n \in StageNames |-> Pending]

\* The environment of one stage attempt: drawn only when the agent reaches
\* its call_flexible call with a resolved reference.
Envs(stage, args, reached) ==
    IF reached /\ fns[stage] = "fn" /\ odd < MaxIrregular
    THEN Collaborators(stage, args) \cup {Regular(stage)}
    ELSE {Regular(stage)}

\* One wrapped agent call, res being what the agent function did.
Attempt(stage, args, env, res, next) ==
    \E w \in {timed_stage(stage, res)} :
        /\ st' = w.state
        /\ last' = [stage |-> stage, raised |-> res.raised,
                    adapter |-> Digest(res.adapter), input |-> args,
                    before |-> st.current_stage]
        /\ how' = [how EXCEPT ![stage] = How(stage, res.adapter)]
        /\ odd' = IF env = Regular(stage) THEN odd ELSE odd + 1
        /\ pc' = IF w.escapes = "no" THEN next ELSE "crashed"
        /\ UNCHANGED fns

IngestionAgent ==
    /\ pc = "ingestion"
    /\ \E env \in Envs("ingestion", <<>>, TRUE) :
          \E res \in {ingestion_body(st, fns["ingestion"], env)} :
              Attempt("ingestion", <<>>, env, res, "preprocessing")

PreprocessingAgent ==
    /\ pc = "preprocessing"
    /\ \E input \in {st.raw_articles} :
          \E env \in Envs("preprocessing", <<input>>, input # <<>>) :
              \E res \in {preprocessing_body(st, fns["preprocessing"], env)} :
                  Attempt("preprocessing", <<input>>, env, res, "deduplication")

DeduplicationAgent ==
    /\ pc = "deduplication"
    /\ \E input \in {Or(st.preprocessed_articles, st.raw_articles)} :
          \E env \in Envs("deduplication", <<input>>, input # <<>>) :
              \E res \in {deduplication_body(st, fns["deduplication"], env)} :
                  Attempt("deduplication", <<input>>, env, res, "ner")

NerAgent ==
    /\ pc = "ner"
    /\ \E input \in {LatestArticles(st)} :
          \E env \in Envs("ner", <<input>>, input # <<>>) :
              \E res \in {ner_body(st, fns["ner"], env)} :
                  Attempt("ner", <<input>>, env, res, "embedding")

EmbeddingAgent ==
    /\ pc = "embedding"
    /\ \E input \in {LatestArticles(st)} :
          \E env \in Envs("embedding", <<input>>, input # <<>>) :
              \E res \in {embedding_body(st, fns["embedding"], env)} :
                  Attempt("embedding", <<input>>, env, res, "impact_scoring")

ImpactScoringAgent ==
    /\ pc = "impact_scoring"
    /\ \E input \in {LatestArticles(st)} :
          \E env \in Envs("impact_scoring", <<input>>, input # <<>>) :
              \E res \in {impact_scoring_body(st, fns["impact_scoring"], env)} :
                  Attempt("impact_scoring", <<input>>, env, res, "query")

\* `if st.query: st = query_agent(st)`
QueryAgent ==
    /\ pc = "query"
    /\ st.query # <<>>
    /\ \E query \in {Strip(st.query)} :
          \E env \in Envs("query", <<query>>, query # <<>>) :
              \E res \in {query_body(st, fns["query"], env)} :
                  Attempt("query", <<query>>, env, res, "finalize")

SkipQuery ==
    /\ pc = "query"
    /\ st.query = <<>>
    /\ pc' = "finalize"
    /\ UNCHANGED <<st, fns, odd, last, how>>

FinalizeAgent ==
    /\ pc = "finalize"
    /\ st' = finalize_agent(st)
    /\ pc' = "done"
    /\ UNCHANGED <<fns, odd, last, how>>

Next ==
    \/ IngestionAgent
    \/ PreprocessingAgent
    \/ DeduplicationAgent
    \/ NerAgent
    \/ EmbeddingAgent
    \/ ImpactScoringAgent
    \/ QueryAgent
    \/ SkipQuery
    \/ FinalizeAgent

Spec == Init /\ [][Next]_vars

\* ----------------------------------------------------------------- claims
Names(durations) == [i \in 1..Len(durations) |-> durations[i].stage]

Flagged(entry) == "error" \in DOMAIN entry

ErrorsNaming(s, stage) == {i \in 1..Len(s.errors) : s.errors[i][1] = stage}

Attempted(stage) == how[stage].outcome # "pending"

\* The adapter of a stage gave its agent nothing because the collaborator
\* was missing or faulted.
Faulted(h) == h.outcome \in {"unavailable", "raised", "mismatch"}

\* C1: whatever the collaborators do and whatever the query is, no exception
\* leaves run_full_pipeline, the run can always take its next step until it
\* has returned, and the state it returns is finalized.
C1_ReturnsFinalized ==
    /\ pc # "crashed"
    /\ pc = "done" => st.current_stage = "finalized"
    /\ pc # "done" => ENABLED Next

C1_Witness ==
    /\ pc = "done"
    /\ st.current_stage = "finalized"
    /\ st.errors # <<>>
    /\ \E n \in StageNames : how[n].outcome = "raised"

\* C2: when the run ends, the stage names of stage_durations are the six
\* fixed stages in call order, followed by "query" exactly when the query
\* stage was attempted, failed attempts included.
C2_DurationTrail ==
    pc = "done" =>
        Names(st.stage_durations) =
            IF Attempted("query") THEN StageOrder ELSE SubSeq(StageOrder, 1, 6)

C2_Witness ==
    /\ pc = "done"
    /\ Attempted("query")
    /\ \E i \in 1..Len(st.stage_durations) : Flagged(st.stage_durations[i])

\* C3 (as stated): the query stage is not run exactly when the trimmed query
\* is empty, and then query_results is empty and no duration entry is named
\* "query".
C3_Original ==
    pc = "done" =>
        /\ ~Attempted("query") <=> Strip(st.query) = <<>>
        /\ Strip(st.query) = <<>> =>
              /\ st.query_results = <<>>
              /\ \A i \in 1..Len(st.stage_durations) :
                    st.stage_durations[i].stage # "query"

\* The output field of a stage holds the stage's documented fallback.
FallbackOutput(s, stage) ==
    IF stage = "ingestion" THEN s.raw_articles = <<>>
    ELSE IF stage = "preprocessing" THEN s.preprocessed_articles = s.raw_articles
    ELSE IF stage = "deduplication"
    THEN s.deduplicated_articles = Or(s.preprocessed_articles, s.raw_articles)
    ELSE IF stage = "impact_scoring" THEN s.impact_scores = <<>>
    ELSE s.query_results = <<>>

TableStages == {"ingestion", "preprocessing", "deduplication", "impact_scoring", "query"}

\* C4 (amended): after the run, the output field of a stage whose
\* collaborator reference is absent holds the stage's fallback, and errors
\* has no entry naming that stage.
C4_AbsentFallsBackSilently ==
    pc = "done" =>
        \A stage \in TableStages :
            fns[stage] = "None" =>
                FallbackOutput(st, stage) /\ ErrorsNaming(st, stage) = {}

C4_Witness ==
    /\ pc = "done"
    /\ fns["preprocessing"] = "None"
    /\ st.raw_articles # <<>>
    /\ st.preprocessed_articles = st.raw_articles

\* C4 (as stated): ... and errors has exactly one entry naming that stage.
C4_Original ==
    pc = "done" =>
        \A stage \in TableStages :
            fns[stage] = "None" =>
                FallbackOutput(st, stage) /\ Cardinality(ErrorsNaming(st, stage)) = 1

\* C5 (as stated): once the ingestion collaborator has raised, raw_articles
\* is empty, errors holds one entry, naming ingestion, current_stage stays
\* "initialized" until the Finalizer runs, every later stage up to
\* impact-scoring is an empty-input skip without an error, and the run ends
\* finalized with errors_count 1.
C5_Original ==
    how["ingestion"].outcome = "raised" =>
        /\ st.raw_articles = <<>>
        /\ Len(st.errors) = 1 /\ st.errors[1][1] = "ingestion"
        /\ pc # "done" => st.current_stage = "initialized"
        /\ \A i \in 2..Len(st.stage_durations) :
              /\ how[st.stage_durations[i].stage].outcome = "skipped"
              /\ ~Flagged(st.stage_durations[i])
        /\ pc = "done" =>
              st.current_stage = "finalized" /\ st.stats.errors_count = 1

\* The output field of a stage after an attempt that degraded.
Degraded(s, t, stage) ==
    IF stage = "ingestion" THEN t.raw_articles = <<>>
    ELSE IF stage = "preprocessing" THEN t.preprocessed_articles = s.raw_articles
    ELSE IF stage = "deduplication"
    THEN t.deduplicated_articles = Or(s.preprocessed_articles, s.raw_articles)
    ELSE IF stage = "ner" THEN t.extracted_entities = s.extracted_entities
    ELSE IF stage = "embedding" THEN t.embeddings_indexed = FALSE
    ELSE IF stage = "impact_scoring" THEN t.impact_scores = <<>>
    ELSE t.query_results = <<>>

\* C6 (as stated): a stage attempt whose collaborator raises does not crash
\* the run, leaves the stage's output at its fallback and adds exactly one
\* entry, for that stage, to errors.
C6_Original ==
    [][(pc \in StageNames /\ how'[pc].outcome = "raised") =>
          /\ pc' # "crashed"
          /\ Degraded(st, st', pc)
          /\ Len(st'.errors) = Len(st.errors) + 1
          /\ st'.errors[Len(st'.errors)][1] = pc]_vars

\* C7: after the Finalizer, stats holds the completion flag, the number of
\* duration entries, the number of errors, the sum of the durations and the
\* lengths of raw_articles, deduplicated_articles and query_results.
C7_StatsAggregate ==
    pc = "done" =>
        /\ "workflow_complete" \in st.stats.keys /\ st.stats.workflow_complete
        /\ st.stats.stages_completed = Len(st.stage_durations)
        /\ st.stats.errors_count = Len(st.errors)
        /\ st.stats.total_duration_seconds = SumDurations(st.stage_durations)
        /\ st.stats.raw_articles_count = Len(st.raw_articles)
        /\ st.stats.unique_articles_count = Len(st.deduplicated_articles)
        /\ st.stats.query_results_count = Len(st.query_results)

C7_Witness ==
    /\ pc = "done"
    /\ Len(st.raw_articles) # Len(st.deduplicated_articles)
    /\ st.query_results # <<>>
    /\ st.stats.total_duration_seconds # st.stats.stages_completed
    /\ st.stats.unique_articles_count > 0

\* C8: no step of a run moves current_stage to a marker earlier in the
\* order than the one it holds.
C8_ForwardOnly == [][Rank(st'.current_stage) >= Rank(st.current_stage)]_vars

C8_Witness ==
    /\ pc = "finalize"
    /\ st.current_stage = "query_complete"
    /\ \E i \in 1..Len(st.stage_durations) : Flagged(st.stage_durations[i])

\* The call run_full_pipeline makes after a stage.
After(stage) ==
    IF stage = "query" THEN "finalize"
    ELSE StageOrder[1 + CHOOSE i \in 1..Len(StageOrder) : StageOrder[i] = stage]

\* C9 (as stated): a stage attempt that fails (collaborator absent or
\* faulting, or the agent function raising) leaves current_stage as it was,
\* and the orchestrator goes on to the next call.
C9_Original ==
    [][(pc \in StageNames /\ last'.stage = pc
          /\ (Faulted(how'[pc]) \/ last'.raised # "no")) =>
          /\ st'.current_stage = st.current_stage
          /\ pc' = After(pc)]_vars

\* C10 (as stated): at the end of the run embeddings_indexed is true exactly
\* when the embedding collaborator was invoked, the adapter got a result
\* from it, and that result is None or truthy.
C10_Original ==
    pc = "done" =>
        (st.embeddings_indexed <=>
            /\ how["embedding"].outcome = "returned"
            /\ how["embedding"].answer \in {"nothing", "true"})

\* ------------------------------------------- the query stage on its own
\* The alias keys of the four arrays, in the order query_agent consults them.
AliasGroups == <<<<"documents", "docs", "documents_list">>, <<"ids", "doc_ids">>,
                 <<"distances", "scores">>, <<"metadatas", "metadata">>>>

\* The scalars under a key are numbered from ten times the key's number.
KeyNumber(k) ==
    CHOOSE j \in 1..9 :
        <<"documents", "docs", "documents_list", "ids", "doc_ids",
          "distances", "scores", "metadatas", "metadata">>[j] = k

\* What a result bundle may hold under the keys of one array: nothing; the
\* first key alone, nested, of every length; the first key flat and the
\* second too; the first key empty and the second flat; the last key alone;
\* the first key alone, nested two levels deep.
GroupChoices(keys) ==
    LET none == [k \in {keys[i] : i \in 1..Len(keys)} |-> NoneE]
        k1 == keys[1]
        k2 == keys[2]
        kn == keys[Len(keys)]
    IN  {none}
        \cup {[none EXCEPT ![k1] = Nested(KeyNumber(k1), n)] : n \in 0..MaxArr}
        \cup {[none EXCEPT ![k1] = Flat(KeyNumber(k1), 1),
                           ![k2] = Flat(KeyNumber(k2), MaxArr)],
              [none EXCEPT ![k1] = ListE(<<>>),
                           ![k2] = Flat(KeyNumber(k2), MaxArr)],
              [none EXCEPT ![kn] = Flat(KeyNumber(kn), 1)],
              [none EXCEPT ![k1] = ListE(<<Nested(KeyNumber(k1), 1)>>)]}

\* The result bundles semantic_query may return.
QueryBundles ==
    {[k \in BundleKeys |->
        IF k \in DOMAIN d THEN d[k] ELSE IF k \in DOMAIN i THEN i[k]
        ELSE IF k \in DOMAIN x THEN x[k] ELSE m[k]]
       : d \in GroupChoices(AliasGroups[1]), i \in GroupChoices(AliasGroups[2]),
         x \in GroupChoices(AliasGroups[3]), m \in GroupChoices(AliasGroups[4])}

\* A semantic_query(query, top_k=5) that returns the bundle.
Answering(bundle) ==
    [sig |-> [params |-> 2, required |-> 1],
     first |-> Returns(PyDict(bundle, "true")), second |-> Raises("Exception")]

\* `if st.query: st = query_agent(st)` with a collaborator that answers.
QueryBundleAgent ==
    /\ pc = "query"
    /\ st.query # <<>>
    /\ \E query \in {Strip(st.query)} :
          \E bundle \in QueryBundles :
              \E env \in {Answering(bundle)} :
                  \E res \in {query_body(st, fns["query"], env)} :
                      Attempt("query", <<query>>, env, res, "finalize")

\* A run whose seven references resolved, whose first six collaborators are
\* the regular ones, and whose query is not empty.
QueryInit ==
    /\ fns = [n \in StageNames |-> "fn"]
    /\ st = WorkflowState(<<" ", "q">>)
    /\ pc = "ingestion"
    /\ odd = MaxIrregular
    /\ last = NoAttempt
    /\ how = [n \in StageNames |-> Pending]

QueryNext ==
    \/ IngestionAgent
    \/ PreprocessingAgent
    \/ DeduplicationAgent
    \/ NerAgent
    \/ EmbeddingAgent
    \/ ImpactScoringAgent
    \/ QueryBundleAgent
    \/ FinalizeAgent

QuerySpec == QueryInit /\ [][QueryNext]_vars

\* The query stage has run and its collaborator returned a bundle.
Answered ==
    /\ last.stage = "query"
    /\ last.adapter.outcome = "returned"
    /\ last.adapter.result.kind = "dict"
    /\ last.adapter.result.truthy = "true"

\* An array as the spec reads it: an absent value is the empty array and a
\* singly-nested array is its first element.
Unnested(e) ==
    IF e.t # "list" THEN <<>>
    ELSE IF e.v # <<>> /\ e.v[1].t = "list" THEN e.v[1].v
    ELSE e.v

\* The keys of the bundle other than the first key of each array.
SecondaryKeys == BundleKeys \ {AliasGroups[g][1] : g \in 1..4}

Longest(a, b, c, d) ==
    CHOOSE n \in {Len(a), Len(b), Len(c), Len(d)} :
        \A m \in {Len(a), Len(b), Len(c), Len(d)} : m <= n

\* C11: a bundle of arrays under documents, ids, distances and metadatas
\* gives, without a fault, as many records as the longest array has
\* positions, record i holding position i of each array, and None exactly
\* where the array has no position i.
C11_ZipByIndex ==
    (Answered /\ \A k \in SecondaryKeys : last.adapter.result.bundle[k] = NoneE) =>
        LET b == last.adapter.result.bundle
            docs == Unnested(b["documents"])
            ids == Unnested(b["ids"])
            distances == Unnested(b["distances"])
            metadatas == Unnested(b["metadatas"])
            Field(arr, i) == IF i <= Len(arr) THEN arr[i] ELSE NoneE
        IN  /\ last.raised = "no"
            /\ Len(st.query_results) = Longest(docs, ids, distances, metadatas)
            /\ \A i \in 1..Len(st.query_results) :
                  /\ st.query_results[i].document = Field(docs, i)
                  /\ st.query_results[i].id = Field(ids, i)
                  /\ st.query_results[i].distance = Field(distances, i)
                  /\ st.query_results[i].metadata = Field(metadatas, i)
                  /\ (st.query_results[i].distance = NoneE) <=> (i > Len(distances))

C11_Witness ==
    /\ Answered
    /\ \A k \in SecondaryKeys : last.adapter.result.bundle[k] = NoneE
    /\ Len(Unnested(last.adapter.result.bundle["documents"])) = 2
    /\ Len(Unnested(last.adapter.result.bundle["distances"])) = 1
    /\ Len(st.query_results) = 2
    /\ st.query_results[2].distance = NoneE
    /\ st.query_results[2].document # NoneE

\* The value a bundle supplies for an array: that of the first of its keys,
\* in the listed order, that holds a non-empty value; empty when none does.
Supplied(bundle, keys) ==
    LET holding == {j \in 1..Len(keys) :
                       bundle[keys[j]].t = "list" /\ bundle[keys[j]].v # <<>>}
    IN  IF holding = {} THEN <<>>
        ELSE Unnested(bundle[keys[CHOOSE j \in holding : \A h \in holding : j <= h]])

\* The values the records hold in one field, in record order.
Column(results, g) ==
    LET field(r) == IF g = 1 THEN r.document ELSE IF g = 2 THEN r.id
                    ELSE IF g = 3 THEN r.distance ELSE r.metadata
    IN  SelectSeq([i \in 1..Len(results) |-> field(results[i])],
                  LAMBDA e : e # NoneE)

\* C12: each of the four arrays the records are built from is the value of
\* the first key of its alias list that holds a non-empty value, and is
\* empty when no key of the list does.
C12_FirstAliasWins ==
    Answered =>
        /\ last.raised = "no"
        /\ \A g \in 1..4 :
              Column(st.query_results, g) =
                  Supplied(last.adapter.result.bundle, AliasGroups[g])

C12_Witness ==
    /\ Answered
    /\ last.adapter.result.bundle["documents"] = ListE(<<>>)
    /\ last.adapter.result.bundle["docs"] # NoneE
    /\ last.adapter.result.bundle["ids"] # NoneE
    /\ last.adapter.result.bundle["doc_ids"] # NoneE
    /\ last.adapter.result.bundle["metadata"] # NoneE
    /\ Len(st.query_results) = MaxArr
    /\ st.query_results[1].document = ScalarE(10 * KeyNumber("docs") + 1)
    /\ st.query_results[1].id = ScalarE(10 * KeyNumber("ids") + 1)

\* The latest adapter call passed its one argument on the first invocation
\* and the collaborator returned the records it was passed.
ReturnedItsInput ==
    /\ last.adapter.outcome = "returned"
    /\ Len(last.adapter.handed) = 1
    /\ Len(last.adapter.handed[1]) = 1
    /\ last.adapter.result.kind \in {"list", "table", "iter"}
    /\ last.adapter.result.items = last.adapter.handed[1][1]

\* C13: after the preprocessing stage, preprocessed_articles equals
\* raw_articles when raw_articles is empty and when the preprocessing
\* collaborator returned its input unchanged.
C13_IdentityRoundTrip ==
    (last.stage = "preprocessing" /\ (st.raw_articles = <<>> \/ ReturnedItsInput)) =>
        /\ last.raised = "no"
        /\ st.preprocessed_articles = st.raw_articles

C13_Witness ==
    /\ last.stage = "preprocessing"
    /\ ReturnedItsInput
    /\ last.adapter.result.kind = "table"
    /\ Len(st.raw_articles) = MaxLen
    /\ st.preprocessed_articles = st.raw_articles
    /\ st.current_stage = "preprocessing_complete"

\* The stage attempts so far whose duration entry carries the error flag.
FailedAttempts(s) ==
    {i \in 1..Len(s.stage_durations) : Flagged(s.stage_durations[i])}

\* C14: errors never has more entries than there are duration entries with
\* the error flag, and a stage attempt that returns normally leaves errors
\* as it was.
C14_ErrorsBounded ==
    /\ [](Len(st.errors) <= Cardinality(FailedAttempts(st)))
    /\ [][(pc \in StageNames /\ last'.raised = "no") => st'.errors = st.errors]_vars

C14_Witness ==
    /\ pc = "done"
    /\ Len(st.errors) = 2
    /\ Cardinality(FailedAttempts(st)) = 2
    /\ Len(st.stage_durations) = 7

\* The step is a stage attempt whose agent function raises.
StageFaults == pc \in StageNames /\ last'.stage = pc /\ last'.raised # "no"

\* C15: when the agent function of a stage raises, timed_stage appends one
\* error string, which starts with the stage name, lets no exception out,
\* and run_full_pipeline goes on to its next call.
C15_FaultContained ==
    [][StageFaults =>
          /\ Len(st'.errors) = Len(st.errors) + 1
          /\ SubSeq(st'.errors, 1, Len(st.errors)) = st.errors
          /\ st'.errors[Len(st'.errors)][1] = pc
          /\ pc' # "crashed"
          /\ pc' = After(pc)]_vars

C15_Witness ==
    /\ Len(st.stage_durations) = 3
    /\ Flagged(st.stage_durations[2])
    /\ ~Flagged(st.stage_durations[3])
    /\ how["deduplication"].outcome = "returned"
    /\ Len(st.errors) = 1
    /\ st.errors[1][1] = "preprocessing"

\* The fields of the state other than errors and stage_durations.
DataFields(s) ==
    <<s.raw_articles, s.preprocessed_articles, s.deduplicated_articles,
      s.extracted_entities, s.embeddings_indexed, s.impact_scores,
      s.query_results, s.query, s.current_stage, s.stats>>

\* C16: when the agent function of a stage raises, the state timed_stage
\* returns has every data field as it was before the stage started, and
\* errors and stage_durations are each one entry longer.
C16_FaultLeavesData ==
    [][StageFaults =>
          /\ DataFields(st') = DataFields(st)
          /\ Len(st'.errors) = Len(st.errors) + 1
          /\ Len(st'.stage_durations) = Len(st.stage_durations) + 1]_vars

C16_Witness ==
    /\ last.stage = "embedding"
    /\ last.raised # "no"
    /\ st.deduplicated_articles # <<>>
    /\ st.current_stage = last.before
    /\ ~st.embeddings_indexed
    /\ Len(st.errors) = 1
    /\ Len(st.stage_durations) = 5

\* C17 (amended): every entry of stage_durations carries a stage name and a
\* duration; the entry of an attempt that raised also carries the error
\* flag, set to true, and the entry of an attempt that returned carries no
\* error flag.
C17_FlagOnlyOnFault ==
    /\ [](\A i \in 1..Len(st.stage_durations) :
             /\ {"stage", "duration"} \subseteq DOMAIN st.stage_durations[i]
             /\ Flagged(st.stage_durations[i]) => st.stage_durations[i].error = TRUE)
    /\ [][(pc \in StageNames /\ last'.stage = pc) =>
             /\ Len(st'.stage_durations) = Len(st.stage_durations) + 1
             /\ st'.stage_durations[Len(st'.stage_durations)].stage = pc
             /\ Flagged(st'.stage_durations[Len(st'.stage_durations)])
                   <=> last'.raised # "no"]_vars

C17_Witness ==
    /\ Len(st.stage_durations) = 2
    /\ DOMAIN st.stage_durations[1] = {"stage", "duration"}
    /\ DOMAIN st.stage_durations[2] = {"stage", "duration", "error"}
    /\ st.stage_durations[2].error = TRUE
    /\ last.raised # "no"

\* C17 (as stated): every entry of stage_durations carries a stage name, a
\* duration and an error flag.
C17_Original ==
    \A i \in 1..Len(st.stage_durations) :
        {"stage", "duration", "error"} \subseteq DOMAIN st.stage_durations[i]

\* The first non-empty sequence of a chain, the last one when all are empty.
RECURSIVE FirstNonEmpty(_)
FirstNonEmpty(chain) ==
    IF Len(chain) = 1 \/ Head(chain) # <<>> THEN Head(chain)
    ELSE FirstNonEmpty(Tail(chain))

\* The fallback chain of a stage, over the state the stage starts from.
FallbackChain(s, stage) ==
    IF stage = "deduplication" THEN <<s.preprocessed_articles, s.raw_articles>>
    ELSE <<s.deduplicated_articles, s.preprocessed_articles, s.raw_articles>>

ChainStages == {"deduplication", "ner", "embedding", "impact_scoring"}

SkippingStages == ChainStages \cup {"preprocessing"}

\* The output field of a stage holds no data.
EmptyOutput(s, stage) ==
    IF stage = "preprocessing" THEN s.preprocessed_articles = <<>>
    ELSE IF stage = "deduplication" THEN s.deduplicated_articles = <<>>
    ELSE IF stage = "ner" THEN s.extracted_entities = <<>>
    ELSE IF stage = "embedding" THEN s.embeddings_indexed = FALSE
    ELSE s.impact_scores = <<>>

\* C19: an attempt of preprocessing, deduplication, entity extraction,
\* embedding or impact scoring whose input is empty makes no invocation,
\* leaves the stage's output empty (embeddings_indexed false), adds nothing
\* to errors, and its duration entry has no error flag.
C19_EmptyInputSkips ==
    [][(pc \in SkippingStages /\ last'.stage = pc
          /\ (IF pc = "preprocessing" THEN st.raw_articles
              ELSE FirstNonEmpty(FallbackChain(st, pc))) = <<>>) =>
          /\ last'.adapter.handed = <<>>
          /\ how'[pc].outcome = "skipped"
          /\ EmptyOutput(st', pc)
          /\ st'.errors = st.errors
          /\ last'.raised = "no"
          /\ ~Flagged(st'.stage_durations[Len(st'.stage_durations)])]_vars

C19_Witness ==
    /\ last.stage = "impact_scoring"
    /\ fns["ingestion"] = "fn"
    /\ st.raw_articles = <<>>
    /\ \A n \in SkippingStages : how[n].outcome = "skipped" /\ EmptyOutput(st, n)
    /\ st.errors = <<>>
    /\ Len(st.stage_durations) = 6
    /\ \A i \in 1..6 : ~Flagged(st.stage_durations[i])

\* C20: an attempt of preprocessing or deduplication with a non-empty input
\* whose adapter call ends unavailable or failed returns normally with the
\* stage's output equal to that input.
C20_FallsBackToInput ==
    [][(pc \in {"preprocessing", "deduplication"} /\ last'.stage = pc
          /\ last'.adapter.outcome \in {"unavailable", "failed"}) =>
          LET input == IF pc = "preprocessing" THEN st.raw_articles
                       ELSE FirstNonEmpty(<<st.preprocessed_articles, st.raw_articles>>)
              output == IF pc = "preprocessing" THEN st'.preprocessed_articles
                        ELSE st'.deduplicated_articles
          IN  /\ input # <<>>
              /\ output = input
              /\ last'.raised = "no"]_vars

C20_Witness ==
    /\ last.stage = "deduplication"
    /\ last.adapter.outcome = "failed"
    /\ how["deduplication"].outcome = "raised"
    /\ st.preprocessed_articles # st.raw_articles
    /\ st.preprocessed_articles # <<>>
    /\ st.deduplicated_articles = st.preprocessed_articles

\* ------------------------------------------ the adapter on its own
\* One call_flexible call as ingestion_agent makes it (no argument) or as
\* preprocessing_agent makes it (one argument), with every collaborator.
AdapterInit ==
    /\ fns \in {f \in [StageNames -> {"fn", "None"}] : Cardinality(Absent(f)) <= MaxAbsent}
    /\ st = WorkflowState(<<>>)
    /\ pc = "adapter"
    /\ odd = 0
    /\ last = NoAttempt
    /\ how = [n \in StageNames |-> Pending]

\* The call: last keeps the collaborator and everything the adapter did.
CallFlexible ==
    /\ pc = "adapter"
    /\ \E stage \in {"ingestion", "preprocessing"} :
          \E args \in {IF stage = "ingestion" THEN <<>> ELSE <<Fresh("ingestion", 1)>>} :
              \E env \in Collaborators(stage, args) :
                  \E a \in {call_flexible(fns[stage], args, env)} :
                      last' = [stage |-> stage, raised |-> "no", adapter |-> a,
                               input |-> args, before |-> st.current_stage,
                               fn |-> fns[stage], env |-> env]
    /\ pc' = "adapted"
    /\ UNCHANGED <<st, fns, odd, how>>

AdapterNext == CallFlexible

AdapterSpec == AdapterInit /\ [][AdapterNext]_vars

\* The invocation made last in an adapter call raised.
LastCallRaised(calls) == calls # <<>> /\ calls[Len(calls)].raises # "no"

C22_Original ==
    pc = "adapted" =>
        LET calls == last.adapter.calls
        IN  /\ Len(calls) <= 2
            /\ Len(calls) = 2 =>
                  /\ calls[2].args = <<>>
                  /\ calls[1].args # <<>>
                  /\ ~calls[1].ran
            /\ (calls # <<>> /\ (last.env.sig.params = 0 \/ calls[1].ran)) => Len(calls) = 1

\* What a bundle holds under a key, as a sequence: nothing when absent.
Held(bundle, k) == IF bundle[k].t = "list" THEN bundle[k].v ELSE <<>>

\* C24: each array of the bundle is replaced by its first element when it is
\* not empty and that element is a list, and is used as it is otherwise,
\* whatever the other arrays are; a list inside the first element stays a
\* list in the records.
C24_UnwrapOneLevel ==
    (Answered /\ \A k \in SecondaryKeys : last.adapter.result.bundle[k] = NoneE) =>
        /\ last.raised = "no"
        /\ \A g \in 1..4 :
              LET arr == Held(last.adapter.result.bundle, AliasGroups[g][1])
              IN  Column(st.query_results, g) =
                      IF arr # <<>> /\ arr[1].t = "list" THEN arr[1].v ELSE arr

C24_Witness ==
    /\ Answered
    /\ \A k \in SecondaryKeys : last.adapter.result.bundle[k] = NoneE
    /\ last.adapter.result.bundle["documents"] = ListE(<<Nested(1, 1)>>)
    /\ last.adapter.result.bundle["ids"] = Nested(4, 2)
    /\ Len(st.query_results) = 2
    /\ st.query_results[1].document = Flat(1, 1)
    /\ st.query_results[1].id = ScalarE(41)

ShapedStages == {"ingestion", "preprocessing", "deduplication", "impact_scoring"}

\* The output field of a shaped stage.
OutputOf(s, stage) ==
    IF stage = "ingestion" THEN s.raw_articles
    ELSE IF stage = "preprocessing" THEN s.preprocessed_articles
    ELSE IF stage = "deduplication" THEN s.deduplicated_articles
    ELSE s.impact_scores

\* C23 (as stated): an attempt of ingestion, preprocessing, deduplication or
\* impact scoring whose collaborator returns a value that is not None, not a
\* table, not a list and not iterable adds one entry to errors and an
\* error-flagged duration entry, leaves the stage's output as it was, and the
\* run goes on to its next call.
C23_Original ==
    [][(pc \in ShapedStages /\ last'.stage = pc
          /\ last'.adapter.outcome = "returned"
          /\ last'.adapter.result.kind = "noniter") =>
          /\ Len(st'.errors) = Len(st.errors) + 1
          /\ st'.errors[Len(st'.errors)][1] = pc
          /\ Flagged(st'.stage_durations[Len(st'.stage_durations)])
          /\ OutputOf(st', pc) = OutputOf(st, pc)
          /\ pc' = After(pc)]_vars

\* The field a stage agent writes its result to.
OwnField(stage) ==
    IF stage = "ingestion" THEN "raw_articles"
    ELSE IF stage = "preprocessing" THEN "preprocessed_articles"
    ELSE IF stage = "deduplication" THEN "deduplicated_articles"
    ELSE IF stage = "ner" THEN "extracted_entities"
    ELSE IF stage = "embedding" THEN "embeddings_indexed"
    ELSE IF stage = "impact_scoring" THEN "impact_scores"
    ELSE "query_results"

\* C26 (as stated): a stage attempt changes, besides current_stage, errors
\* and stage_durations, only the stage's own output field; stats stays empty
\* through every stage attempt; and no stage after deduplication changes
\* raw_articles, preprocessed_articles or deduplicated_articles.
C26_Original ==
    [][(pc \in StageNames /\ last'.stage = pc) =>
          /\ \A f \in DOMAIN st \ {OwnField(pc), "current_stage", "errors",
                                   "stage_durations"} : st'[f] = st[f]
          /\ st'.stats.keys = {}
          /\ pc \in {"ner", "embedding", "impact_scoring", "query"} =>
                /\ st'.raw_articles = st.raw_articles
                /\ st'.preprocessed_articles = st.preprocessed_articles
                /\ st'.deduplicated_articles = st.deduplicated_articles]_vars

\* ------------------------------------------------------ concurrent runs
\* Bound: the runs of run_full_pipeline that execute interleaved.
NumRuns == 2

Runs == 1..NumRuns

\* The mutable objects a WorkflowState references and run_full_pipeline
\* changes in place (errors.append, stage_durations.append, stats[...] = ...),
\* and the mapping finalize_agent builds; a reference is <<owner, field>>.
InPlace == {"errors", "stage_durations", "stats", "final_stats"}

Refs == Runs \X InPlace

\* WorkflowState(...) with one set of lists for all instances, as a default
\* without default_factory would give.
SharedWorkflowState(r, query) ==
    [WorkflowState(query) EXCEPT !.errors = <<1, "errors">>,
                                 !.stage_durations = <<1, "stage_durations">>,
                                 !.stats = <<1, "stats">>]

\* WorkflowState(query=...) of run r: field(default_factory=...) gives the
\* instance its own errors, stage_durations and stats objects; the other
\* fields are only ever rebound, and are kept by value.
NewWorkflowState(r, query) ==
    [WorkflowState(query) EXCEPT !.errors = <<r, "errors">>,
                                 !.stage_durations = <<r, "stage_durations">>,
                                 !.stats = <<r, "stats">>]

\* The heap before any run has written to it.
FreshHeap ==
    [ref \in Refs |-> IF ref[2] \in {"stats", "final_stats"} THEN EmptyStats ELSE <<>>]

\* The WorkflowState of run r as its agents read it.
Resolve(mem, r) ==
    [mem.runs[r] EXCEPT !.errors = mem.heap[mem.runs[r].errors],
                        !.stage_durations = mem.heap[mem.runs[r].stage_durations],
                        !.stats = mem.heap[mem.runs[r].stats]]

\* The memory after run r's state object went from what Resolve gives to s:
\* fields are rebound in the object, the three in-place objects are updated
\* where they live.
WriteBack(mem, r, s) ==
    [runs |-> [mem.runs EXCEPT ![r] =
                  [s EXCEPT !.errors = mem.runs[r].errors,
                            !.stage_durations = mem.runs[r].stage_durations,
                            !.stats = mem.runs[r].stats]],
     heap |-> [mem.heap EXCEPT ![mem.runs[r].errors] = s.errors,
                               ![mem.runs[r].stage_durations] = s.stage_durations,
                               ![mem.runs[r].stats] = s.stats]]

\* `state.stats = stats` in finalize_agent: the field is rebound to the new
\* mapping, current_stage is set; the old mapping stays as it is.
FinalizeBack(mem, r, s) ==
    [runs |-> [mem.runs EXCEPT ![r] =
                  [s EXCEPT !.errors = mem.runs[r].errors,
                            !.stage_durations = mem.runs[r].stage_durations,
                            !.stats = <<r, "final_stats">>]],
     heap |-> [mem.heap EXCEPT ![<<r, "final_stats">>] = s.stats]]

\* The agent function registered for a stage.
StageBody(stage, s, fn, env) ==
    IF stage = "ingestion" THEN ingestion_body(s, fn, env)
    ELSE IF stage = "preprocessing" THEN preprocessing_body(s, fn, env)
    ELSE IF stage = "deduplication" THEN deduplication_body(s, fn, env)
    ELSE IF stage = "ner" THEN ner_body(s, fn, env)
    ELSE IF stage = "embedding" THEN embedding_body(s, fn, env)
    ELSE IF stage = "impact_scoring" THEN impact_scoring_body(s, fn, env)
    ELSE query_body(s, fn, env)

\* The collaborators of the interleaved runs: the regular one, and for
\* ingestion one returning a number, for embedding one returning a table.
RunEnvs(stage) ==
    {Regular(stage)}
    \cup (IF stage = "ingestion"
          THEN {[Regular(stage) EXCEPT !.first = Returns(PyScalar("true"))]}
          ELSE IF stage = "embedding"
          THEN {[Regular(stage) EXCEPT !.first = Returns(PyTable(<<>>))]}
          ELSE {})

\* Every run has constructed its WorkflowState; none has called an agent.
RunsInit ==
    /\ fns = [n \in StageNames |-> "fn"]
    /\ \E queries \in [Runs -> {<<>>, <<"q">>}] :
          st = [runs |-> [r \in Runs |-> NewWorkflowState(r, queries[r])],
                heap |-> FreshHeap]
    /\ pc = [r \in Runs |-> "ingestion"]
    /\ odd = 0
    /\ last = NoAttempt
    /\ how = [n \in StageNames |-> Pending]

\* Run r makes its next wrapped agent call.
RunStage(r) ==
    /\ pc[r] \in StageNames
    /\ pc[r] = "query" => Resolve(st, r).query # <<>>
    /\ \E s \in {Resolve(st, r)} :
          \E env \in RunEnvs(pc[r]) :
              \E w \in {timed_stage(pc[r], StageBody(pc[r], s, fns[pc[r]], env))} :
                  /\ st' = WriteBack(st, r, w.state)
                  /\ pc' = [pc EXCEPT ![r] = After(pc[r])]
    /\ UNCHANGED <<fns, odd, last, how>>

\* Run r finds its query empty.
RunSkipQuery(r) ==
    /\ pc[r] = "query"
    /\ Resolve(st, r).query = <<>>
    /\ pc' = [pc EXCEPT ![r] = "finalize"]
    /\ UNCHANGED <<st, fns, odd, last, how>>

\* Run r calls finalize_agent and returns.
RunFinalize(r) ==
    /\ pc[r] = "finalize"
    /\ st' = FinalizeBack(st, r, finalize_agent(Resolve(st, r)))
    /\ pc' = [pc EXCEPT ![r] = "done"]
    /\ UNCHANGED <<fns, odd, last, how>>

RunsNext == \E r \in Runs : RunStage(r) \/ RunSkipQuery(r) \/ RunFinalize(r)

RunsSpec == RunsInit /\ [][RunsNext]_vars

\* C25: a step of one run leaves every field of every other run's
\* WorkflowState, and that run's position, as they were.
C25_RunsIsolated ==
    [][\A r \in Runs : \A q \in Runs \ {r} :
          pc'[r] # pc[r] =>
              /\ Resolve(st', q) = Resolve(st, q)
              /\ pc'[q] = pc[q]]_vars

C25_Witness ==
    /\ pc[1] = "impact_scoring"
    /\ pc[2] = "impact_scoring"
    /\ Len(Resolve(st, 1).errors) = 1
    /\ Resolve(st, 2).errors = <<>>
    /\ Resolve(st, 2).stats.keys = {"raw_articles_count"}
    /\ Resolve(st, 1).stats.keys = {}
    /\ Len(Resolve(st, 1).stage_durations) = 5
    /\ Len(Resolve(st, 2).stage_durations) = 5

\* ------------------------------------------- semantic deduplication
\* Bound: the rows of the table handed to remove_semantic_duplicates.
MaxRows == 4

\* The pairs of distinct rows of an n-row table, as {i, j}.
RowPairs(n) == {{i, j} : i \in 1..n, j \in 1..n} \ {{i} : i \in 1..n}

\* util.cos_sim(...) > threshold on rows i and j, given the pairs of rows
\* whose embeddings are that close.
Similar(close, i, j) == {i, j} \in close

InSeq(x, seq) == \E k \in 1..Len(seq) : seq[k] = x

\* The inner loop of row i: the later rows not in keep that are similar to
\* it, each adding one to removed.
InnerLoop(close, n, i, keep) ==
    Cardinality({j \in (i + 1)..n : ~InSeq(j, keep) /\ Similar(close, i, j)})

\* The outer loop from row i on.
RECURSIVE OuterLoop(_, _, _, _, _)
OuterLoop(close, n, i, keep, removed) ==
    IF i > n THEN [keep |-> keep, removed |-> removed]
    ELSE IF InSeq(i, keep) THEN OuterLoop(close, n, i + 1, keep, removed)
    ELSE OuterLoop(close, n, i + 1, Append(keep, i),
                   removed + InnerLoop(close, n, i, Append(keep, i)))

\* remove_semantic_duplicates(df) on an n-row table: the rows of
\* df.iloc[keep] and the count it logs as removed.
remove_semantic_duplicates(n, close) == OuterLoop(close, n, 1, <<>>, 0)

\* A table and the similarity of its rows.
DedupInit ==
    /\ fns = [n \in StageNames |-> "fn"]
    /\ \E n \in 0..MaxRows : \E close \in SUBSET RowPairs(n) :
          st = [rows |-> n, close |-> close]
    /\ pc = "remove_semantic_duplicates"
    /\ odd = 0
    /\ last = NoAttempt
    /\ how = [n \in StageNames |-> Pending]

RemoveSemanticDuplicates ==
    /\ pc = "remove_semantic_duplicates"
    /\ \E out \in {remove_semantic_duplicates(st.rows, st.close)} :
          last' = [stage |-> "remove_semantic_duplicates", raised |-> "no",
                   unique |-> out.keep, removed |-> out.removed]
    /\ pc' = "deduplicated"
    /\ UNCHANGED <<st, fns, odd, how>>

DedupNext == RemoveSemanticDuplicates

DedupSpec == DedupInit /\ [][DedupNext]_vars

\* C27 (as stated): no row of the returned table is similar, above the
\* threshold, to a row retained before it, and the rows dropped are as many
\* as the semantic duplicates reported removed.
C27_Original ==
    pc = "deduplicated" =>
        /\ \A a \in 1..Len(last.unique) : \A b \in 1..(a - 1) :
              ~Similar(st.close, last.unique[b], last.unique[a])
        /\ st.rows - Len(last.unique) = last.removed

====
